---- MODULE Spec2Model ----
(***************************************************************************)
(* k8s-namespace-guard: the admission webhook that guards namespace        *)
(* deletion (listener.go) and the liveness endpoint (main.go).             *)
(*                                                                         *)
(* Go strings are TLA+ strings; fmt.Sprintf is string concatenation.  A    *)
(* back-quote cannot stand alone in a TLA+ string literal, so the two      *)
(* back-quotes of the bypass hint are taken from BackQuote.                *)
(***************************************************************************)
EXTENDS Integers, Sequences, FiniteSets, TLC

VARIABLES admitAll, cluster, prev, gor

vars == <<admitAll, cluster, prev, gor>>

(***************************************************************************)
(* Bounds of the model.                                                    *)
(***************************************************************************)
\* the largest number of items a list query returns; a query that succeeds
\* returns 0, 1 or MaxCount items
MaxCount == 12
\* the largest number of kinds of the namespace under test that are non-empty
\* or failing at once in Spec (the uniform tallies, where all eight kinds
\* agree, and one mixed tally are always included; SpecEngine runs over every
\* combination)
MaxDirty == 1
\* the number of requests the server handles at once in SpecConc
NumGoroutines == 2

(***************************************************************************)
(* Program constants.                                                      *)
(***************************************************************************)
bypassAnnotationKey == "k8s-namespace-guard.admission.yahoo.com/allow-cascade-delete"

namespaceResourceType == [Group |-> "", Version |-> "v1", Resource |-> "namespaces"]

StatusOK == 200
StatusNotFound == 404
StatusMethodNotAllowed == 405

MethodPost == "POST"
Delete == "DELETE"

\* the kind column of the counters table of validateNamespaceDeletion
counters ==
  << "pods", "services", "replicasets", "deployments",
     "statefulsets", "daemonsets", "ingresses", "horizontalpodautoscalers" >>

NumKinds == Len(counters)

(***************************************************************************)
(* Go values.                                                              *)
(***************************************************************************)
\* a Go error value: nil, or an error with its Error() text
NilErr == [isNil |-> TRUE, msg |-> ""]
NewErr(m) == [isNil |-> FALSE, msg |-> m]

\* Go map read: the zero value "" for a missing key
MapGet(m, k) == IF k \in DOMAIN m THEN m[k] ELSE ""

\* a nil map and a map, as GetAnnotations returns them
NilMap == [isNil |-> TRUE, m |-> <<>>]
MakeMap(f) == [isNil |-> FALSE, m |-> f]

\* the zero value of v1alpha1.AdmissionReviewSpec (the fields the handler
\* reads or echoes)
ZeroSpec ==
  [ Operation |-> "",
    Resource  |-> [Group |-> "", Version |-> "", Resource |-> ""],
    Name      |-> "",
    Namespace |-> "",
    Username  |-> "",
    Object    |-> "" ]

ZeroStatus == [Allowed |-> FALSE, hasResult |-> FALSE, Reason |-> ""]

\* v1alpha1.AdmissionReview{}
ZeroReview == [Spec |-> ZeroSpec, Status |-> ZeroStatus]

(***************************************************************************)
(* fmt verbs.                                                              *)
(***************************************************************************)
Digits == <<"0", "1", "2", "3", "4", "5", "6", "7", "8", "9">>

\* %d of a non-negative int
RECURSIVE Itoa(_)
Itoa(n) == IF n < 10 THEN Digits[n + 1]
           ELSE Itoa(n \div 10) \o Digits[(n % 10) + 1]

RECURSIVE JoinSp(_)
JoinSp(list) ==
  IF Len(list) = 0 THEN ""
  ELSE IF Len(list) = 1 THEN list[1]
  ELSE list[1] \o " " \o JoinSp(Tail(list))

\* %v of a []string, and of a []error (each element by its Error() text)
FmtSlice(list) == "[" \o JoinSp(list) \o "]"

\* %v of a v1.GroupVersionResource passed by value
FmtGVR(r) == "{" \o r.Group \o " " \o r.Version \o " " \o r.Resource \o "}"

(***************************************************************************)
(* String predicates used by the properties.                               *)
(***************************************************************************)
\* the back-quote: the first of the two characters of the literal
BackQuote == SubSeq("`'", 1, 1)

HasPrefix(s, p) == Len(s) >= Len(p) /\ SubSeq(s, 1, Len(p)) = p

HasSuffix(s, p) == Len(s) >= Len(p) /\ SubSeq(s, Len(s) - Len(p) + 1, Len(s)) = p

Contains(s, sub) ==
  \E i \in 1..(Len(s) - Len(sub) + 1) : SubSeq(s, i, i + Len(sub) - 1) = sub

(***************************************************************************)
(* The cluster behind clientset.                                           *)
(*   cluster[n].get         outcome of Namespaces().Get(n)                 *)
(*   cluster[n].annotations the annotations of the namespace object        *)
(*   cluster[n].list[k]     outcome of the List of kind counters[k] in n   *)
(*   cluster[n].unlisted    number of objects of other kinds in n          *)
(*                          (configmaps, secrets), which no query lists    *)
(***************************************************************************)
GetFound == "found"
GetNotFound == "notfound"
GetError == "error"

\* the error texts of the fake cluster
ListErrText == "the server is currently unable to handle the request"
GetErrText == "etcdserver: request timed out"
NotFoundText(name) == "namespaces \"" \o name \o "\" not found"

\* clientset.CoreV1().Namespaces().Get(name, v1.GetOptions{}); a name the
\* cluster does not know is not found
NamespacesGet(cl, name) ==
  IF name \in DOMAIN cl /\ cl[name].get = GetFound
    THEN [annotations |-> cl[name].annotations, err |-> NilErr, notFound |-> FALSE]
  ELSE IF name \notin DOMAIN cl \/ cl[name].get = GetNotFound
    THEN [annotations |-> NilMap, err |-> NewErr(NotFoundText(name)), notFound |-> TRUE]
  ELSE [annotations |-> NilMap, err |-> NewErr(GetErrText), notFound |-> FALSE]

\* apiErrors.IsNotFound(err)
IsNotFound(got) == got.notFound

\* clientset.<Group>().<Kind>(namespace).List(v1.ListOptions{}); a namespace
\* the cluster does not know holds nothing
List(cl, k, namespace) ==
  IF namespace \in DOMAIN cl THEN cl[namespace].list[k]
  ELSE [items |-> 0, err |-> NilErr]

(***************************************************************************)
(* The per-kind counters: podCounter, serviceCounter, replicasetCounter,   *)
(* deploymentCounter, statefulsetCounter, daemonsetCounter, ingressCounter *)
(* and autoScaleCounter have the same body, each over its own kind.        *)
(***************************************************************************)
counter(cl, k, namespace) ==
  LET list == List(cl, k, namespace)
  IN  IF ~list.err.isNil
        THEN [num |-> 0, err |-> list.err]
        ELSE [num |-> list.items, err |-> NilErr]

\* a call on clientset, as the cluster sees it
GetCall(name) == [op |-> "get", kind |-> "namespaces", ns |-> name]
ListCall(k, namespace) == [op |-> "list", kind |-> counters[k], ns |-> namespace]

(***************************************************************************)
(* validateNamespaceDeletion                                               *)
(***************************************************************************)
\* tallyStep with a failed query dropped instead of recorded
tallyStepSwallow(cl, namespace, k, acc) ==
  LET c == counter(cl, k, namespace)
      issued == Append(acc.calls, ListCall(k, namespace))
  IN  IF c.err.isNil /\ c.num > 0
        THEN [ errList      |-> acc.errList,
               nonEmptyList |-> Append(acc.nonEmptyList,
                                 counters[k] \o "(" \o Itoa(c.num) \o ")"),
               calls        |-> issued ]
      ELSE [ errList |-> acc.errList, nonEmptyList |-> acc.nonEmptyList,
             calls |-> issued ]

\* tallyStep with the test num > 1 in place of num > 0
tallyStepOffByOne(cl, namespace, k, acc) ==
  LET c == counter(cl, k, namespace)
      issued == Append(acc.calls, ListCall(k, namespace))
  IN  IF ~c.err.isNil
        THEN [ errList      |-> Append(acc.errList,
                                 "error listing " \o counters[k] \o ", " \o c.err.msg),
               nonEmptyList |-> acc.nonEmptyList,
               calls        |-> issued ]
      ELSE IF c.num > 1
        THEN [ errList      |-> acc.errList,
               nonEmptyList |-> Append(acc.nonEmptyList,
                                 counters[k] \o "(" \o Itoa(c.num) \o ")"),
               calls        |-> issued ]
      ELSE [ errList |-> acc.errList, nonEmptyList |-> acc.nonEmptyList,
             calls |-> issued ]

\* tallyStep over a table with a ninth entry, which counts the objects of
\* other kinds as configmaps
tallyStepUnlisted(cl, namespace, k, acc) ==
  LET c == counter(cl, k, namespace)
      issued == Append(acc.calls, ListCall(k, namespace))
      eight ==
        IF ~c.err.isNil
          THEN [ errList      |-> Append(acc.errList,
                                   "error listing " \o counters[k] \o ", " \o c.err.msg),
                 nonEmptyList |-> acc.nonEmptyList,
                 calls        |-> issued ]
        ELSE IF c.num > 0
          THEN [ errList      |-> acc.errList,
                 nonEmptyList |-> Append(acc.nonEmptyList,
                                   counters[k] \o "(" \o Itoa(c.num) \o ")"),
                 calls        |-> issued ]
        ELSE [ errList |-> acc.errList, nonEmptyList |-> acc.nonEmptyList,
               calls |-> issued ]
  IN  IF k = NumKinds /\ namespace \in DOMAIN cl /\ cl[namespace].unlisted > 0
        THEN [eight EXCEPT !.nonEmptyList =
                Append(eight.nonEmptyList,
                       "configmaps(" \o Itoa(cl[namespace].unlisted) \o ")")]
        ELSE eight

\* one iteration of the loop over counters
tallyStep(cl, namespace, k, acc) ==
  LET c == counter(cl, k, namespace)
      issued == Append(acc.calls, ListCall(k, namespace))
  IN  IF ~c.err.isNil
        THEN [ errList      |-> Append(acc.errList,
                                 "error listing " \o counters[k] \o ", " \o c.err.msg),
               nonEmptyList |-> acc.nonEmptyList,
               calls        |-> issued ]
      ELSE IF c.num > 0
        THEN [ errList      |-> acc.errList,
               nonEmptyList |-> Append(acc.nonEmptyList,
                                 counters[k] \o "(" \o Itoa(c.num) \o ")"),
               calls        |-> issued ]
      ELSE [ errList |-> acc.errList, nonEmptyList |-> acc.nonEmptyList,
             calls |-> issued ]

\* the loop: for _, c := range counters
RECURSIVE tallyLoop(_, _, _, _)
tallyLoop(cl, namespace, k, acc) ==
  IF k > NumKinds THEN acc
  ELSE tallyLoop(cl, namespace, k + 1, tallyStep(cl, namespace, k, acc))

nonEmptyClause(namespace, nonEmptyList) ==
  "The namespace " \o namespace
    \o " you are trying to remove contains one or more of these resources: "
    \o FmtSlice(nonEmptyList) \o ". Please delete them and try again."

errClause(namespace, errList) ==
  "The following error(s) occurred while validating the DELETE operation on the namespace "
    \o namespace \o ": " \o FmtSlice(errList) \o "."

bypassHint(namespace) ==
  " WARNING: If you know what you are doing, run " \o BackQuote
    \o "kubectl annotate namespace "
    \o namespace \o " " \o bypassAnnotationKey
    \o "=true" \o BackQuote \o " to bypass this policy check."

\* denialMessage with the error clause only when nothing is non-empty
denialMessageElseIf(namespace, errList, nonEmptyList) ==
  LET s1 == IF Len(nonEmptyList) > 0
              THEN nonEmptyClause(namespace, nonEmptyList)
            ELSE IF Len(errList) > 0
              THEN errClause(namespace, errList)
            ELSE ""
  IN  IF s1 # "" THEN s1 \o bypassHint(namespace) ELSE ""

\* denialMessage with the error clause put before the non-empty clause
denialMessageErrFirst(namespace, errList, nonEmptyList) ==
  LET s1 == IF Len(errList) > 0
              THEN errClause(namespace, errList) ELSE ""
      s2 == IF Len(nonEmptyList) > 0
              THEN s1 \o nonEmptyClause(namespace, nonEmptyList) ELSE s1
  IN  IF s2 # "" THEN s2 \o bypassHint(namespace) ELSE ""

\* denialMessage with the bypass hint appended to the non-empty clause only
denialMessageHintNonEmptyOnly(namespace, errList, nonEmptyList) ==
  LET s1 == IF Len(nonEmptyList) > 0
              THEN nonEmptyClause(namespace, nonEmptyList) \o bypassHint(namespace)
              ELSE ""
  IN  IF Len(errList) > 0 THEN s1 \o errClause(namespace, errList) ELSE s1

\* the message built after the loop; "" when there is nothing to report
denialMessage(namespace, errList, nonEmptyList) ==
  LET s1 == IF Len(nonEmptyList) > 0
              THEN nonEmptyClause(namespace, nonEmptyList) ELSE ""
      s2 == IF Len(errList) > 0
              THEN s1 \o errClause(namespace, errList) ELSE s1
  IN  IF s2 # "" THEN s2 \o bypassHint(namespace) ELSE ""

validateNamespaceDeletion(cl, namespace) ==
  LET acc == tallyLoop(cl, namespace, 1,
                       [errList |-> <<>>, nonEmptyList |-> <<>>, calls |-> <<>>])
      errStr == denialMessage(namespace, acc.errList, acc.nonEmptyList)
  IN  [ err   |-> IF errStr # "" THEN NewErr(errStr) ELSE NilErr,
        calls |-> acc.calls ]

(***************************************************************************)
(* writeResponse and http.Error                                            *)
(***************************************************************************)
\* writeResponse with the reason left out of the status
writeResponseNoReason(admReview, allowed, errorMsg) ==
  [ code     |-> StatusOK,
    writes   |-> 1,
    isReview |-> TRUE,
    text     |-> "",
    review   |-> [ Spec   |-> admReview.Spec,
                   Status |-> [ Allowed   |-> allowed,
                                hasResult |-> TRUE,
                                Reason    |-> "" ] ] ]

\* writeResponse sets the status of the review and writes the review as the
\* body, once (writes counts the bodies written to the ResponseWriter); it
\* never sets a status code, so the first Write sends 200.  The body
\* is the review itself: the JSON encoding of a review does not fail, so the
\* branch that reports an encoding error is never taken.
writeResponse(admReview, allowed, errorMsg) ==
  [ code     |-> StatusOK,
    writes   |-> 1,
    isReview |-> TRUE,
    text     |-> "",
    review   |-> [ Spec   |-> admReview.Spec,
                   Status |-> [ Allowed   |-> allowed,
                                hasResult |-> TRUE,
                                Reason    |-> errorMsg ] ] ]

\* http.Error(rw, msg, code): the message and a newline as plain text
httpError(msg, code) ==
  [ code |-> code, writes |-> 1, isReview |-> FALSE, text |-> msg \o "\n",
    review |-> ZeroReview ]

\* nothing written yet
NoResponse ==
  [ code |-> 0, writes |-> 0, isReview |-> FALSE, text |-> "", review |-> ZeroReview ]

(***************************************************************************)
(* webhookHandler                                                          *)
(* A request is [Method, Path, body]; body.err is the result of decoding   *)
(* the body into an AdmissionReview and body.review the decoded review.    *)
(***************************************************************************)
\* hasBypass with a truthy test in place of the exact match
hasBypassTruthy(annotations) ==
  /\ ~annotations.isNil
  /\ MapGet(annotations.m, bypassAnnotationKey) \in {"true", "True", "TRUE", "1"}

\* the annotation gate
hasBypass(annotations) ==
  ~annotations.isNil /\ MapGet(annotations.m, bypassAnnotationKey) = "true"

\* lookupFailed with every lookup error taken for not-found
lookupFailedAllow(admReview, got) == writeResponse(admReview, TRUE, "")

\* the branch taken when the lookup of the namespace fails
lookupFailed(admReview, got) ==
  IF IsNotFound(got)
    THEN writeResponse(admReview, TRUE, "")
    ELSE writeResponse(admReview, FALSE,
           "Error occurred while retrieving the namespace "
             \o admReview.Spec.Name \o ": " \o got.err.msg)

\* from the namespace lookup on
guardNamespace(cl, admReview) ==
  LET name == admReview.Spec.Name
      got  == NamespacesGet(cl, name)
      v    == validateNamespaceDeletion(cl, name)
  IN  IF ~got.err.isNil
        THEN [ resp  |-> lookupFailed(admReview, got),
               calls |-> <<GetCall(name)>> ]
      ELSE IF hasBypass(got.annotations)
        THEN [ resp  |-> writeResponse(admReview, TRUE, ""),
               calls |-> <<GetCall(name)>> ]
      ELSE IF ~v.err.isNil
        THEN [ resp  |-> writeResponse(admReview, FALSE, v.err.msg),
               calls |-> <<GetCall(name)>> \o v.calls ]
      ELSE [ resp  |-> writeResponse(admReview, TRUE, ""),
             calls |-> <<GetCall(name)>> \o v.calls ]

\* the gates on the decoded review
admit(cl, flag, admReview) ==
  IF flag = TRUE
    THEN [ resp |-> writeResponse(admReview, TRUE, ""), calls |-> <<>> ]
  ELSE IF admReview.Spec.Resource # namespaceResourceType
    THEN [ resp  |-> writeResponse(admReview, FALSE,
                       "Incoming resource is not a Namespace: "
                         \o FmtGVR(admReview.Spec.Resource)),
           calls |-> <<>> ]
  ELSE IF admReview.Spec.Operation # Delete
    THEN [ resp  |-> writeResponse(admReview, FALSE,
                       "Incoming operation is " \o admReview.Spec.Operation
                         \o " on namespace " \o admReview.Spec.Name
                         \o ". Only DELETE is currently supported."),
           calls |-> <<>> ]
  ELSE guardNamespace(cl, admReview)

DecodeFailurePrefix ==
  "Failed to decode the request body json into an AdmissionReview resource: "

webhookHandler(cl, flag, req) ==
  IF req.Method # MethodPost
    THEN [ resp  |-> httpError("Incoming request method " \o req.Method
                                 \o " is not supported, only POST is supported",
                               StatusMethodNotAllowed),
           calls |-> <<>> ]
  ELSE IF req.Path # "/"
    THEN [ resp  |-> httpError(req.Path \o " 404 Not Found", StatusNotFound),
           calls |-> <<>> ]
  ELSE IF ~req.body.err.isNil
    THEN [ resp  |-> writeResponse(ZeroReview, FALSE,
                                   DecodeFailurePrefix \o req.body.err.msg),
           calls |-> <<>> ]
  ELSE admit(cl, flag, req.body.review)

\* statusHandler that answers GET only
statusHandlerGetOnly(req) ==
  IF req.Method = "GET"
    THEN [ code |-> StatusOK, writes |-> 1, isReview |-> FALSE, text |-> "OK",
           review |-> ZeroReview ]
    ELSE httpError("Method Not Allowed", StatusMethodNotAllowed)

\* statusHandler: io.WriteString(rw, "OK")
statusHandler(req) ==
  [ code |-> StatusOK, writes |-> 1, isReview |-> FALSE, text |-> "OK",
    review |-> ZeroReview ]

(***************************************************************************)
(* The clusters and the requests the model is run on.                      *)
(***************************************************************************)
PrimaryName == "test-namespace"
OtherName == "team-a"
Names == {PrimaryName, OtherName}

KindIds == 1..NumKinds

CleanOutcome == [items |-> 0, err |-> NilErr]
FailedOutcome == [items |-> 0, err |-> NewErr(ListErrText)]
DirtyOutcomes ==
  {[items |-> n, err |-> NilErr] : n \in {1, MaxCount}} \cup {FailedOutcome}

\* the tallies with the kinds of D dirty as f says, the others empty
TallyOf(D, f) == [k \in KindIds |-> IF k \in D THEN f[k] ELSE CleanOutcome]

UniformTallies == {[k \in KindIds |-> o] : o \in {CleanOutcome} \cup DirtyOutcomes}

\* pods and ingresses fail, services hold one item and deployments MaxCount
MixedTally ==
  TallyOf({1, 2, 4, 7},
          (1 :> FailedOutcome) @@ (2 :> [items |-> 1, err |-> NilErr])
            @@ (4 :> [items |-> MaxCount, err |-> NilErr]) @@ (7 :> FailedOutcome))

Tallies ==
  UniformTallies \cup {MixedTally} \cup
  UNION { {TallyOf(D, f) : f \in [D -> DirtyOutcomes]} :
            D \in {X \in SUBSET KindIds : Cardinality(X) <= MaxDirty} }

AnnotationMaps ==
  { NilMap,
    MakeMap(<<>>),
    MakeMap(bypassAnnotationKey :> "true"),
    MakeMap(bypassAnnotationKey :> "false"),
    MakeMap(bypassAnnotationKey :> "True"),
    MakeMap("owner" :> "true") }

OnePod == TallyOf({1}, [k \in {1} |-> [items |-> 1, err |-> NilErr]])

\* the namespace under test: every lookup outcome; every annotation map and
\* tally when it exists
\* the numbers of configmaps and secrets tried with the tally t
UnlistedCounts(t) == IF t \in UniformTallies \cup {MixedTally} THEN {0, 2} ELSE {0}

PrimaryStates ==
  UNION { {[get |-> GetFound, annotations |-> a, list |-> t, unlisted |-> u] :
              a \in AnnotationMaps, u \in UnlistedCounts(t)} : t \in Tallies }
  \cup
  {[get |-> g, annotations |-> NilMap, list |-> t, unlisted |-> 0] :
      g \in {GetNotFound, GetError}, t \in {TallyOf({}, <<>>), OnePod}}

\* the other namespace of the cluster: it exists and holds one pod
OtherState ==
  [get |-> GetFound, annotations |-> MakeMap(<<>>), list |-> OnePod, unlisted |-> 0]

Clusters ==
  {[n \in Names |-> IF n = PrimaryName THEN p ELSE OtherState] :
      p \in PrimaryStates}

Operations == {"CREATE", "UPDATE", "DELETE", "CONNECT"}

ResourceTypes ==
  { namespaceResourceType,
    [Group |-> "", Version |-> "v1", Resource |-> "pods"],
    [Group |-> "", Version |-> "v2", Resource |-> "namespaces"],
    [Group |-> "apps", Version |-> "v1", Resource |-> "namespaces"] }

MakeSpec(op, res, name, ns, user, obj) ==
  [ Operation |-> op, Resource |-> res, Name |-> name, Namespace |-> ns,
    Username |-> user, Object |-> obj ]

\* the reviews sent: every operation, resource type and target name by one
\* requester, and the DELETE of a namespace by other requesters, with another
\* targetNamespace and another raw object
Specs ==
  {MakeSpec(op, res, name, name, "alice", "{}") :
      op \in Operations, res \in ResourceTypes, name \in Names}
  \cup
  {MakeSpec(Delete, namespaceResourceType, name, ns, user, obj) :
      name \in Names, ns \in Names, user \in {"alice", "bob"},
      obj \in {"{}", "null"}}
  \cup {ZeroSpec}

DecodeErrText == "EOF"

Decoded(spec) == [err |-> NilErr, review |-> [Spec |-> spec, Status |-> ZeroStatus]]
Undecodable == [err |-> NewErr(DecodeErrText), review |-> ZeroReview]

TemplateSpec ==
  MakeSpec(Delete, namespaceResourceType, PrimaryName, PrimaryName, "alice", "{}")

\* a body with a number where a string is expected: Decode fills the other
\* fields of admReview and returns the type error
Mistyped ==
  [err |-> NewErr("json: cannot unmarshal number into Go value of type string"),
   review |-> [Spec |-> TemplateSpec, Status |-> ZeroStatus]]

Requests ==
  {[Method |-> MethodPost, Path |-> "/", body |-> b] :
      b \in {Decoded(sp) : sp \in Specs} \cup {Undecodable, Mistyped}}
  \cup
  {[Method |-> m, Path |-> p, body |-> b] :
      m \in {MethodPost, "GET", "DELETE"}, p \in {"/", "/namespaces"},
      b \in {Decoded(TemplateSpec), Undecodable}}

\* the requests the mux routes to statusHandler
StatusRequests ==
  {[Method |-> m, Path |-> "/status.html", body |-> Undecodable] :
      m \in {MethodPost, "GET"}}

NoRequest == [Method |-> "", Path |-> "", body |-> Undecodable]

(***************************************************************************)
(* The state machine.  net/http runs the handler of each request on a      *)
(* goroutine of its own and nothing is locked, so handlers interleave.     *)
(* webhookHandler is cut at its reads of the package variables and at its  *)
(* calls on clientset: the flag (Admit), the lookup of the namespace       *)
(* (Lookup), each list query of the loop (Tally) and the end of            *)
(* validateNamespaceDeletion (Verdict).  admReview, errList, nonEmptyList  *)
(* and the ResponseWriter are local to the goroutine.                      *)
(*   admitAll  the --admitAll flag                                         *)
(*   cluster   the cluster behind clientset                                *)
(*   gor       the goroutines: for each its position in the handler (pc),  *)
(*             its request (req), the index of the loop (k), errList,      *)
(*             nonEmptyList and the calls it has made on clientset (acc),  *)
(*             and what it has written to its ResponseWriter (resp).  Two  *)
(*             fields are not in the program: overlapped records that the  *)
(*             goroutine ran an iteration of its loop while another was    *)
(*             inside its own loop, cancelledAt is the number of calls the *)
(*             goroutine had issued when the caller gave up its request,   *)
(*             or NotCancelled.                                            *)
(*   prev      a request answered earlier with the response it got, as its *)
(*             sender remembers them                                       *)
(***************************************************************************)
Idle == [handler |-> "none", req |-> NoRequest]

NoPrev == [req |-> NoRequest, resp |-> NoResponse]

\* the goroutines of net/http: one per connection
Goroutines == 1..NumGoroutines

\* the value of cancelledAt while the context of the request is live
NotCancelled == -1

\* a goroutine that serves no request
IdleGoroutine ==
  [ pc |-> "idle", req |-> NoRequest, k |-> 0,
    acc |-> [errList |-> <<>>, nonEmptyList |-> <<>>, calls |-> <<>>],
    resp |-> NoResponse, overlapped |-> FALSE, cancelledAt |-> NotCancelled ]

NoGoroutines == [g \in Goroutines |-> IdleGoroutine]

\* the goroutine g writes r to its ResponseWriter and its handler returns
Return(g, r) ==
  [gor EXCEPT ![g].pc = "done",
              ![g].resp = [r EXCEPT !.writes = gor[g].resp.writes + r.writes]]

\* Serve with the path tested before the method
ServePathFirst(g, req) ==
  /\ gor[g].pc = "idle"
  /\ LET taken == [gor EXCEPT ![g].req = req]
     IN  gor' =
           IF req.Path # "/"
             THEN [taken EXCEPT ![g].pc = "done",
                     ![g].resp = httpError(req.Path \o " 404 Not Found", StatusNotFound)]
           ELSE IF req.Method # MethodPost
             THEN [taken EXCEPT ![g].pc = "done",
                     ![g].resp = httpError("Incoming request method " \o req.Method
                                             \o " is not supported, only POST is supported",
                                           StatusMethodNotAllowed)]
           ELSE IF ~req.body.err.isNil
             THEN [taken EXCEPT ![g].pc = "done",
                     ![g].resp = writeResponse(ZeroReview, FALSE,
                                               DecodeFailurePrefix \o req.body.err.msg)]
           ELSE [taken EXCEPT ![g].pc = "admit"]
  /\ UNCHANGED <<admitAll, cluster, prev>>

\* Serve that answers a failed decode with the review it decoded into
ServeEchoPartial(g, req) ==
  /\ gor[g].pc = "idle"
  /\ LET taken == [gor EXCEPT ![g].req = req]
     IN  gor' =
           IF req.Method # MethodPost
             THEN [taken EXCEPT ![g].pc = "done",
                     ![g].resp = httpError("Incoming request method " \o req.Method
                                             \o " is not supported, only POST is supported",
                                           StatusMethodNotAllowed)]
           ELSE IF req.Path # "/"
             THEN [taken EXCEPT ![g].pc = "done",
                     ![g].resp = httpError(req.Path \o " 404 Not Found", StatusNotFound)]
           ELSE IF ~req.body.err.isNil
             THEN [taken EXCEPT ![g].pc = "done",
                     ![g].resp = writeResponse(req.body.review, FALSE,
                                               DecodeFailurePrefix \o req.body.err.msg)]
           ELSE [taken EXCEPT ![g].pc = "admit"]
  /\ UNCHANGED <<admitAll, cluster, prev>>

\* mux.HandleFunc("/", webhookHandler): the server hands the request to a
\* goroutine, which runs webhookHandler up to the decoding of the body
Serve(g, req) ==
  /\ gor[g].pc = "idle"
  /\ LET taken == [gor EXCEPT ![g].req = req]
     IN  gor' =
           IF req.Method # MethodPost
             THEN [taken EXCEPT ![g].pc = "done",
                     ![g].resp = httpError("Incoming request method " \o req.Method
                                             \o " is not supported, only POST is supported",
                                           StatusMethodNotAllowed)]
           ELSE IF req.Path # "/"
             THEN [taken EXCEPT ![g].pc = "done",
                     ![g].resp = httpError(req.Path \o " 404 Not Found", StatusNotFound)]
           ELSE IF ~req.body.err.isNil
             THEN [taken EXCEPT ![g].pc = "done",
                     ![g].resp = writeResponse(ZeroReview, FALSE,
                                               DecodeFailurePrefix \o req.body.err.msg)]
           ELSE [taken EXCEPT ![g].pc = "admit"]
  /\ UNCHANGED <<admitAll, cluster, prev>>

\* mux.HandleFunc("/status.html", statusHandler); statusHandler makes no
\* call and reads no package variable
StatusHandler(g, req) ==
  /\ gor[g].pc = "idle"
  /\ gor' = [gor EXCEPT ![g].pc = "done", ![g].req = req,
                        ![g].resp = statusHandler(req)]
  /\ UNCHANGED <<admitAll, cluster, prev>>

\* what Admit of goroutine g does with the decoded review when the override
\* is off and the resource type and the operation are those of the guard
AdmitPass(g) == [gor EXCEPT ![g].pc = "lookup"]

ResourceDenial(admReview) ==
  writeResponse(admReview, FALSE,
    "Incoming resource is not a Namespace: " \o FmtGVR(admReview.Spec.Resource))

OperationDenial(admReview) ==
  writeResponse(admReview, FALSE,
    "Incoming operation is " \o admReview.Spec.Operation
      \o " on namespace " \o admReview.Spec.Name
      \o ". Only DELETE is currently supported.")

\* Admit with the override tested after the resource type and the operation
AdmitOverrideLate(g) ==
  LET admReview == gor[g].req.body.review
  IN  /\ gor[g].pc = "admit"
      /\ gor' =
           IF admReview.Spec.Resource # namespaceResourceType
             THEN Return(g, ResourceDenial(admReview))
           ELSE IF admReview.Spec.Operation # Delete
             THEN Return(g, OperationDenial(admReview))
           ELSE IF admitAll = TRUE
             THEN Return(g, writeResponse(admReview, TRUE, ""))
           ELSE AdmitPass(g)
      /\ UNCHANGED <<admitAll, cluster, prev>>

\* Admit with only the resource name of the resource type compared
AdmitResourceNameOnly(g) ==
  LET admReview == gor[g].req.body.review
  IN  /\ gor[g].pc = "admit"
      /\ gor' =
           IF admitAll = TRUE
             THEN Return(g, writeResponse(admReview, TRUE, ""))
           ELSE IF admReview.Spec.Resource.Resource # namespaceResourceType.Resource
             THEN Return(g, ResourceDenial(admReview))
           ELSE IF admReview.Spec.Operation # Delete
             THEN Return(g, OperationDenial(admReview))
           ELSE AdmitPass(g)
      /\ UNCHANGED <<admitAll, cluster, prev>>

\* Admit with the operation tested before the resource type
AdmitOperationFirst(g) ==
  LET admReview == gor[g].req.body.review
  IN  /\ gor[g].pc = "admit"
      /\ gor' =
           IF admitAll = TRUE
             THEN Return(g, writeResponse(admReview, TRUE, ""))
           ELSE IF admReview.Spec.Operation # Delete
             THEN Return(g, OperationDenial(admReview))
           ELSE IF admReview.Spec.Resource # namespaceResourceType
             THEN Return(g, ResourceDenial(admReview))
           ELSE AdmitPass(g)
      /\ UNCHANGED <<admitAll, cluster, prev>>

\* Admit without the test of the operation
AdmitAnyOperation(g) ==
  LET admReview == gor[g].req.body.review
  IN  /\ gor[g].pc = "admit"
      /\ gor' =
           IF admitAll = TRUE
             THEN Return(g, writeResponse(admReview, TRUE, ""))
           ELSE IF admReview.Spec.Resource # namespaceResourceType
             THEN Return(g, ResourceDenial(admReview))
           ELSE AdmitPass(g)
      /\ UNCHANGED <<admitAll, cluster, prev>>

\* if *admitAll == true, and the tests of the resource type and the operation
Admit(g) ==
  LET admReview == gor[g].req.body.review
  IN  /\ gor[g].pc = "admit"
      /\ gor' =
           IF admitAll = TRUE
             THEN Return(g, writeResponse(admReview, TRUE, ""))
           ELSE IF admReview.Spec.Resource # namespaceResourceType
             THEN Return(g, ResourceDenial(admReview))
           ELSE IF admReview.Spec.Operation # Delete
             THEN Return(g, OperationDenial(admReview))
           ELSE AdmitPass(g)
      /\ UNCHANGED <<admitAll, cluster, prev>>

\* Lookup without the return after the response of the bypass branch: the
\* handler goes on into validateNamespaceDeletion
LookupNoReturn(g) ==
  LET admReview == gor[g].req.body.review
      name == admReview.Spec.Name
      got  == NamespacesGet(cluster, name)
      issued == [gor EXCEPT ![g].acc.calls = <<GetCall(name)>>]
  IN  /\ gor[g].pc = "lookup"
      /\ gor' =
           IF ~got.err.isNil
             THEN [issued EXCEPT ![g].pc = "done",
                                 ![g].resp = lookupFailed(admReview, got)]
           ELSE IF hasBypass(got.annotations)
             THEN [issued EXCEPT ![g].pc = "tally", ![g].k = 1,
                                 ![g].resp = writeResponse(admReview, TRUE, "")]
           ELSE [issued EXCEPT ![g].pc = "tally", ![g].k = 1]
      /\ UNCHANGED <<admitAll, cluster, prev>>

\* Lookup that removes the bypass annotation from the namespace once it has
\* allowed a request for it
LookupConsumeBypass(g) ==
  LET admReview == gor[g].req.body.review
      name == admReview.Spec.Name
      got  == NamespacesGet(cluster, name)
      issued == [gor EXCEPT ![g].acc.calls = <<GetCall(name)>>]
      used == got.err.isNil /\ hasBypass(got.annotations)
  IN  /\ gor[g].pc = "lookup"
      /\ gor' =
           IF ~got.err.isNil
             THEN [issued EXCEPT ![g].pc = "done",
                                 ![g].resp = lookupFailed(admReview, got)]
           ELSE IF hasBypass(got.annotations)
             THEN [issued EXCEPT ![g].pc = "done",
                     ![g].acc.calls = <<GetCall(name),
                                        [op |-> "update", kind |-> "namespaces", ns |-> name]>>,
                     ![g].resp = writeResponse(admReview, TRUE, "")]
           ELSE [issued EXCEPT ![g].pc = "tally", ![g].k = 1]
      /\ cluster' = IF used
                      THEN [cluster EXCEPT ![name].annotations = MakeMap(<<>>)]
                      ELSE cluster
      /\ UNCHANGED <<admitAll, prev>>

\* clientset.CoreV1().Namespaces().Get and the test of the annotation
Lookup(g) ==
  LET admReview == gor[g].req.body.review
      name == admReview.Spec.Name
      got  == NamespacesGet(cluster, name)
      issued == [gor EXCEPT ![g].acc.calls = <<GetCall(name)>>]
  IN  /\ gor[g].pc = "lookup"
      /\ gor' =
           IF ~got.err.isNil
             THEN [issued EXCEPT ![g].pc = "done",
                                 ![g].resp = lookupFailed(admReview, got)]
           ELSE IF hasBypass(got.annotations)
             THEN [issued EXCEPT ![g].pc = "done",
                                 ![g].resp = writeResponse(admReview, TRUE, "")]
           ELSE [issued EXCEPT ![g].pc = "tally", ![g].k = 1]
      /\ UNCHANGED <<admitAll, cluster, prev>>

\* another goroutine is between two iterations of its loop
OtherInLoop(g) ==
  \E h \in Goroutines \ {g} :
    gor[h].pc = "tally" /\ gor[h].k > 1 /\ gor[h].k <= NumKinds

\* Tally with errList and nonEmptyList declared as package variables, which
\* all goroutines in the loop append to
TallyShared(g) ==
  LET name == gor[g].req.body.review.Spec.Name
      acc  == tallyStep(cluster, name, gor[g].k, gor[g].acc)
  IN  /\ gor[g].pc = "tally"
      /\ gor[g].k <= NumKinds
      /\ gor' = [h \in Goroutines |->
                   IF h = g
                     THEN [gor[g] EXCEPT !.acc = acc, !.k = gor[g].k + 1,
                            !.overlapped = gor[g].overlapped \/ OtherInLoop(g)]
                   ELSE IF gor[h].pc = "tally"
                     THEN [gor[h] EXCEPT !.acc.errList = acc.errList,
                                         !.acc.nonEmptyList = acc.nonEmptyList]
                   ELSE gor[h]]
      /\ UNCHANGED <<admitAll, cluster, prev>>

\* Tally that leaves the loop at the first kind that failed or is non-empty
TallyEarlyExit(g) ==
  LET name == gor[g].req.body.review.Spec.Name
      acc  == tallyStep(cluster, name, gor[g].k, gor[g].acc)
  IN  /\ gor[g].pc = "tally"
      /\ gor[g].k <= NumKinds
      /\ gor' = [gor EXCEPT ![g].acc = acc,
                            ![g].k = IF Len(acc.errList) + Len(acc.nonEmptyList) > 0
                                       THEN NumKinds + 1 ELSE gor[g].k + 1,
                            ![g].overlapped = gor[g].overlapped \/ OtherInLoop(g)]
      /\ UNCHANGED <<admitAll, cluster, prev>>

\* Tally with the namespace taken from the Namespace field of the review in
\* place of its Name
TallyByNamespaceField(g) ==
  LET name == gor[g].req.body.review.Spec.Namespace
  IN  /\ gor[g].pc = "tally"
      /\ gor[g].k <= NumKinds
      /\ gor' = [gor EXCEPT ![g].acc = tallyStep(cluster, name, gor[g].k, gor[g].acc),
                            ![g].k = gor[g].k + 1,
                            ![g].overlapped = gor[g].overlapped \/ OtherInLoop(g)]
      /\ UNCHANGED <<admitAll, cluster, prev>>

\* one iteration of the loop of validateNamespaceDeletion
Tally(g) ==
  LET name == gor[g].req.body.review.Spec.Name
  IN  /\ gor[g].pc = "tally"
      /\ gor[g].k <= NumKinds
      /\ gor' = [gor EXCEPT ![g].acc = tallyStep(cluster, name, gor[g].k, gor[g].acc),
                            ![g].k = gor[g].k + 1,
                            ![g].overlapped = gor[g].overlapped \/ OtherInLoop(g)]
      /\ UNCHANGED <<admitAll, cluster, prev>>

\* Verdict with a handler that leaves the override on once it has denied a
\* request
VerdictLatch(g) ==
  LET admReview == gor[g].req.body.review
      errStr == denialMessage(admReview.Spec.Name, gor[g].acc.errList,
                              gor[g].acc.nonEmptyList)
  IN  /\ gor[g].pc = "tally"
      /\ gor[g].k > NumKinds
      /\ gor' = IF errStr # ""
                  THEN Return(g, writeResponse(admReview, FALSE, errStr))
                  ELSE Return(g, writeResponse(admReview, TRUE, ""))
      /\ admitAll' = (admitAll \/ errStr # "")
      /\ UNCHANGED <<cluster, prev>>

\* Verdict with the error of validateNamespaceDeletion reported by
\* http.Error as an internal server error
VerdictInternalError(g) ==
  LET admReview == gor[g].req.body.review
      errStr == denialMessage(admReview.Spec.Name, gor[g].acc.errList,
                              gor[g].acc.nonEmptyList)
  IN  /\ gor[g].pc = "tally"
      /\ gor[g].k > NumKinds
      /\ gor' = IF errStr # ""
                  THEN Return(g, httpError(errStr, 500))
                  ELSE Return(g, writeResponse(admReview, TRUE, ""))
      /\ UNCHANGED <<admitAll, cluster, prev>>

\* the message after the loop and the response of the handler
Verdict(g) ==
  LET admReview == gor[g].req.body.review
      errStr == denialMessage(admReview.Spec.Name, gor[g].acc.errList,
                              gor[g].acc.nonEmptyList)
  IN  /\ gor[g].pc = "tally"
      /\ gor[g].k > NumKinds
      /\ gor' = IF errStr # ""
                  THEN Return(g, writeResponse(admReview, FALSE, errStr))
                  ELSE Return(g, writeResponse(admReview, TRUE, ""))
      /\ UNCHANGED <<admitAll, cluster, prev>>

\* the handler has returned and the goroutine waits for the next request of
\* its connection
Finish(g) ==
  /\ gor[g].pc = "done"
  /\ gor' = [gor EXCEPT ![g] = IdleGoroutine]
  /\ UNCHANGED <<admitAll, cluster, prev>>

(***************************************************************************)
(* The request a client sent on the first connection, once its handler has *)
(* returned: the handler that served it, what the client got back and the  *)
(* calls the handler made for it.                                          *)
(***************************************************************************)
last ==
  IF gor[1].pc # "done" THEN Idle
  ELSE [ handler |-> IF gor[1].req.Path = "/status.html" THEN "status" ELSE "webhook",
         req     |-> gor[1].req ]

resp == IF gor[1].pc = "done" THEN gor[1].resp ELSE NoResponse

calls == IF gor[1].pc = "done" THEN gor[1].acc.calls ELSE <<>>

(***************************************************************************)
(* Spec: one client, which sends a request and waits for its response      *)
(* before it sends the next.                                               *)
(***************************************************************************)
Init ==
  /\ admitAll \in BOOLEAN
  /\ cluster \in Clusters
  /\ prev = NoPrev
  /\ gor = NoGoroutines

\* the steps of the handler on the first connection
Handle ==
  \/ Admit(1)
  \/ Lookup(1)
  \/ Tally(1)
  \/ Verdict(1)
  \/ Finish(1)

Next ==
  \/ \E req \in Requests : Serve(1, req)
  \/ \E req \in StatusRequests : StatusHandler(1, req)
  \/ Handle

Spec == Init /\ [][Next]_vars

(***************************************************************************)
(* A second specification for the message of the Decision Engine: the      *)
(* DELETE of an existing namespace without annotations, over every         *)
(* combination of outcomes of the eight list queries.                      *)
(***************************************************************************)
AllTallies == [KindIds -> {CleanOutcome} \cup DirtyOutcomes]

EngineClusters ==
  {[n \in Names |->
      IF n = PrimaryName
        THEN [get |-> GetFound, annotations |-> NilMap, list |-> t, unlisted |-> 0]
        ELSE OtherState] : t \in AllTallies}

TemplateRequest == [Method |-> MethodPost, Path |-> "/", body |-> Decoded(TemplateSpec)]

InitEngine ==
  /\ admitAll = FALSE
  /\ cluster \in EngineClusters
  /\ prev = NoPrev
  /\ gor = NoGoroutines

NextEngine ==
  \/ Serve(1, TemplateRequest)
  \/ Handle

SpecEngine == InitEngine /\ [][NextEngine]_vars

(***************************************************************************)
(* A third specification for repeated requests: the client may remember    *)
(* the response it got (Remember) and send the request again, right away   *)
(* or after other requests.                                                *)
(***************************************************************************)
RepeatClusters ==
  {[n \in Names |-> IF n = PrimaryName THEN p ELSE OtherState] :
      p \in {q \in PrimaryStates :
               q.list \in UniformTallies \cup {MixedTally, OnePod} /\ q.unlisted = 0}}

RepeatRequests ==
  {[Method |-> MethodPost, Path |-> "/", body |-> b] :
      b \in {Decoded(MakeSpec(op, res, name, name, "alice", "{}")) :
               op \in {Delete, "CREATE"},
               res \in {namespaceResourceType,
                        [Group |-> "", Version |-> "v1", Resource |-> "pods"]},
               name \in Names}
            \cup {Undecodable}}
  \cup
  {[Method |-> "GET", Path |-> "/", body |-> Undecodable],
   [Method |-> MethodPost, Path |-> "/namespaces", body |-> Decoded(TemplateSpec)]}

\* the client keeps the response; the handler has returned
Remember ==
  /\ gor[1].pc = "done"
  /\ prev' = [req |-> gor[1].req, resp |-> gor[1].resp]
  /\ gor' = [gor EXCEPT ![1] = IdleGoroutine]
  /\ UNCHANGED <<admitAll, cluster>>

InitRepeat ==
  /\ admitAll \in BOOLEAN
  /\ cluster \in RepeatClusters
  /\ prev = NoPrev
  /\ gor = NoGoroutines

NextRepeat ==
  \/ \E req \in RepeatRequests : Serve(1, req)
  \/ Handle
  \/ Remember

SpecRepeat == InitRepeat /\ [][NextRepeat]_vars

(***************************************************************************)
(* A fourth specification for concurrent requests: several clients, whose  *)
(* requests the server handles at once, each on a goroutine.               *)
(***************************************************************************)
ConcClusters ==
  {[n \in Names |-> IF n = PrimaryName THEN p ELSE OtherState] :
      p \in { [get |-> GetFound, annotations |-> NilMap, list |-> MixedTally,
               unlisted |-> 0],
              [get |-> GetFound, annotations |-> MakeMap(bypassAnnotationKey :> "true"),
               list |-> MixedTally, unlisted |-> 0],
              [get |-> GetFound, annotations |-> NilMap,
               list |-> TallyOf({}, <<>>), unlisted |-> 0],
              [get |-> GetError, annotations |-> NilMap, list |-> OnePod,
               unlisted |-> 0] }}

ConcRequests ==
  { TemplateRequest,
    [Method |-> MethodPost, Path |-> "/",
     body |-> Decoded(MakeSpec(Delete, namespaceResourceType, OtherName, OtherName,
                               "bob", "{}"))],
    [Method |-> MethodPost, Path |-> "/",
     body |-> Decoded(MakeSpec("CREATE", namespaceResourceType, PrimaryName,
                               PrimaryName, "alice", "{}"))],
    [Method |-> MethodPost, Path |-> "/", body |-> Undecodable],
    [Method |-> "GET", Path |-> "/", body |-> Decoded(TemplateSpec)] }

InitConc ==
  /\ admitAll \in BOOLEAN
  /\ cluster \in ConcClusters
  /\ prev = NoPrev
  /\ gor = NoGoroutines

NextConc ==
  \/ \E g \in Goroutines, req \in ConcRequests : Serve(g, req)
  \/ \E g \in Goroutines : Admit(g)
  \/ \E g \in Goroutines : Lookup(g)
  \/ \E g \in Goroutines : Tally(g)
  \/ \E g \in Goroutines : Verdict(g)

SpecConc == InitConc /\ [][NextConc]_vars

(***************************************************************************)
(* A fifth specification, for callers that give up: SpecConc and the       *)
(* cancellation of a request whose handler is in the loop of               *)
(* validateNamespaceDeletion.  net/http cancels req.Context() when the     *)
(* client closes the connection or its deadline passes; webhookHandler     *)
(* never reads the context and the List calls of the counters take none,   *)
(* so the cancellation changes nothing but the context.                    *)
(***************************************************************************)
Cancel(g) ==
  /\ gor[g].pc = "tally"
  /\ gor[g].k <= NumKinds
  /\ gor[g].cancelledAt = NotCancelled
  /\ gor' = [gor EXCEPT ![g].cancelledAt = Len(gor[g].acc.calls)]
  /\ UNCHANGED <<admitAll, cluster, prev>>

NextCancel ==
  \/ NextConc
  \/ \E g \in Goroutines : Cancel(g)

SpecCancel == InitConc /\ [][NextCancel]_vars

(***************************************************************************)
(* Vocabulary of the properties.                                           *)
(***************************************************************************)
\* the review of the request handled last, and the verdict written for it
ReqSpec == last.req.body.review.Spec
Allowed == resp.review.Status.Allowed
Reason == resp.review.Status.Reason

\* webhookHandler has handled a POST to "/"
Posted ==
  /\ last.handler = "webhook"
  /\ last.req.Method = "POST"
  /\ last.req.Path = "/"

\* ... whose body decoded into a review
DecodedPost == Posted /\ last.req.body.err.isNil

\* ... that is a DELETE of a namespace, with the override off
NamespaceDelete ==
  /\ DecodedPost
  /\ ~admitAll
  /\ ReqSpec.Resource.Group = ""
  /\ ReqSpec.Resource.Version = "v1"
  /\ ReqSpec.Resource.Resource = "namespaces"
  /\ ReqSpec.Operation = "DELETE"

\* ... of a namespace that exists
TargetExists ==
  /\ NamespaceDelete
  /\ ReqSpec.Name \in DOMAIN cluster
  /\ cluster[ReqSpec.Name].get = GetFound

\* the namespace n carries the bypass annotation with the value "true"
BypassSet(n) ==
  LET a == cluster[n].annotations
  IN  /\ ~a.isNil
      /\ \E key \in DOMAIN a.m :
            /\ key = "k8s-namespace-guard.admission.yahoo.com/allow-cascade-delete"
            /\ a.m[key] = "true"

\* ... and the request reaches the Decision Engine
EngineCase == TargetExists /\ ~BypassSet(ReqSpec.Name)

\* the outcome of the list query of kind k in the target namespace
Outcome(k) == cluster[ReqSpec.Name].list[k]
QueryFailed(k) == ~Outcome(k).err.isNil
QueryEmpty(k) == Outcome(k).err.isNil /\ Outcome(k).items = 0
QueryNonEmpty(k) == Outcome(k).err.isNil /\ Outcome(k).items > 0

\* a verdict was written: a review envelope with allowed set
IsAllowed == resp.isReview /\ Allowed = TRUE
IsDenied == resp.isReview /\ Allowed = FALSE

(***************************************************************************)
(* C1: for a DELETE of an existing namespace without the bypass annotation *)
(* "true", with the override off, the verdict is Allowed exactly when each *)
(* of the eight list queries succeeded with count 0, which is exactly when *)
(* validateNamespaceDeletion returns nil; otherwise the verdict is Denied  *)
(* and its reason is the message validateNamespaceDeletion returns.        *)
(***************************************************************************)
C1_AllowedIffAllEmpty ==
  EngineCase =>
    LET allEmpty == \A k \in KindIds : QueryEmpty(k)
        v == validateNamespaceDeletion(cluster, ReqSpec.Name)
    IN  /\ resp.isReview
        /\ Allowed <=> allEmpty
        /\ v.err.isNil <=> allEmpty
        /\ ~allEmpty => Reason = v.err.msg /\ Reason # ""

\* an empty namespace was allowed after all eight queries
C1_Witness ==
  /\ EngineCase
  /\ \A k \in KindIds : QueryEmpty(k)
  /\ IsAllowed
  /\ Len(calls) = 1 + NumKinds

(***************************************************************************)
(* C2: when at least one kind is non-empty, the denial message starts with *)
(* the non-empty-list clause, and the list of that clause is exactly the   *)
(* kinds whose query succeeded with count > 0, each as kind(count), in the *)
(* order of the fixed kind list, whatever kinds failed.                    *)
(***************************************************************************)
ExpectedNonEmpty ==
  LET ids == [k \in KindIds |-> k]
      NonEmpty(k) == QueryNonEmpty(k)
      sel == SelectSeq(ids, NonEmpty)
  IN  [i \in 1..Len(sel) |->
         counters[sel[i]] \o "(" \o Itoa(Outcome(sel[i]).items) \o ")"]

C2_NonEmptyClause ==
  (EngineCase /\ \E k \in KindIds : QueryNonEmpty(k)) =>
    /\ IsDenied
    /\ HasPrefix(Reason,
         "The namespace " \o ReqSpec.Name
           \o " you are trying to remove contains one or more of these resources: ["
           \o JoinSp(ExpectedNonEmpty)
           \o "]. Please delete them and try again.")

\* denied with a failed kind before and after two non-empty kinds
C2_Witness ==
  /\ EngineCase
  /\ IsDenied
  /\ \E i, j, k, l \in KindIds :
        /\ i < j /\ j < k /\ k < l
        /\ QueryFailed(i) /\ QueryNonEmpty(j) /\ QueryNonEmpty(k) /\ QueryFailed(l)
        /\ Outcome(j).items # Outcome(k).items

(***************************************************************************)
(* C3: if the list query of any kind fails, validateNamespaceDeletion      *)
(* returns an error, never nil, the verdict is Denied, and the reason      *)
(* names that kind with the text of its error, also when every other kind  *)
(* is empty.                                                               *)
(***************************************************************************)
C3_FailClosed ==
  EngineCase =>
    \A k \in KindIds :
      QueryFailed(k) =>
        /\ ~validateNamespaceDeletion(cluster, ReqSpec.Name).err.isNil
        /\ IsDenied
        /\ Contains(Reason, counters[k] \o ", " \o Outcome(k).err.msg)

\* denied because of one failed query, every other kind being empty
C3_Witness ==
  /\ EngineCase
  /\ IsDenied
  /\ \E k \in KindIds :
        /\ QueryFailed(k)
        /\ \A j \in KindIds \ {k} : QueryEmpty(j)

(***************************************************************************)
(* C4: with the admitAll override on, every POST to "/" whose body decodes *)
(* is Allowed with an empty reason, whatever the review asks for and       *)
(* whatever the cluster holds.                                             *)
(***************************************************************************)
C4_AdmitAll ==
  (DecodedPost /\ admitAll) =>
    /\ IsAllowed
    /\ Reason = ""

\* the override allowed a review of another resource type while the lookup
\* of the namespace it names would fail
C4_Witness ==
  /\ DecodedPost
  /\ admitAll
  /\ IsAllowed
  /\ ReqSpec.Resource.Resource = "pods"
  /\ ReqSpec.Operation = "CREATE"
  /\ ReqSpec.Name \in DOMAIN cluster
  /\ cluster[ReqSpec.Name].get = GetError

(***************************************************************************)
(* C5: for a DELETE of an existing namespace with the override off, the    *)
(* bypass annotation with exactly the value "true" gives Allowed, also     *)
(* when kinds are non-empty or queries fail; with any other value, without *)
(* the annotation or with a nil annotation map, the verdict and the reason *)
(* are those of validateNamespaceDeletion for that namespace.              *)
(***************************************************************************)
C5_BypassExact ==
  TargetExists =>
    IF BypassSet(ReqSpec.Name)
      THEN IsAllowed /\ Reason = ""
      ELSE LET v == validateNamespaceDeletion(cluster, ReqSpec.Name)
           IN  /\ resp.isReview
               /\ Allowed = v.err.isNil
               /\ Reason = v.err.msg

\* the annotation "true" allowed a namespace with a non-empty kind and a
\* failing query
C5_Witness ==
  /\ TargetExists
  /\ BypassSet(ReqSpec.Name)
  /\ IsAllowed
  /\ \E j, k \in KindIds : QueryNonEmpty(j) /\ QueryFailed(k)

(***************************************************************************)
(* C6: for a DELETE of a namespace with the override off, a lookup that    *)
(* fails with not-found gives Allowed with an empty reason, and a lookup   *)
(* that fails with another error gives Denied with a reason that holds the *)
(* lookup error.                                                           *)
(***************************************************************************)
C6_Lookup ==
  NamespaceDelete =>
    LET n == ReqSpec.Name
        notFound == n \notin DOMAIN cluster \/ cluster[n].get = GetNotFound
        otherErr == n \in DOMAIN cluster /\ cluster[n].get = GetError
    IN  /\ notFound => IsAllowed /\ Reason = ""
        /\ otherErr => IsDenied /\ Contains(Reason, GetErrText)

\* denied because the lookup failed with an error other than not-found
C6_Witness ==
  /\ NamespaceDelete
  /\ ReqSpec.Name \in DOMAIN cluster
  /\ cluster[ReqSpec.Name].get = GetError
  /\ IsDenied

(***************************************************************************)
(* C7: a POST to "/" whose body does not decode gets allowed=false, a      *)
(* reason that is the decode-failure prefix followed by the decode error,  *)
(* and a client-error (4xx) status.  The handler writes the envelope with  *)
(* writeResponse, which sets no status, so the status sent is 200.         *)
(***************************************************************************)
C7_DecodeFailureIs4xx ==
  (Posted /\ ~last.req.body.err.isNil) =>
    /\ IsDenied
    /\ Reason = "Failed to decode the request body json into an AdmissionReview resource: "
                  \o last.req.body.err.msg
    /\ resp.code >= 400 /\ resp.code <= 499

(***************************************************************************)
(* C8: with the override off, a decoded review whose resource type is not  *)
(* exactly (group "", version "v1", resource "namespaces") is Denied with  *)
(* a reason naming the resource type, and a review of the namespaces       *)
(* resource whose operation is not DELETE is Denied with a reason naming   *)
(* the operation.                                                          *)
(***************************************************************************)
IsNamespaceType(r) == r.Group = "" /\ r.Version = "v1" /\ r.Resource = "namespaces"

C8_UnexpectedInput ==
  (DecodedPost /\ ~admitAll) =>
    LET r == ReqSpec.Resource
    IN  /\ ~IsNamespaceType(r) =>
              /\ IsDenied
              /\ Reason = "Incoming resource is not a Namespace: {"
                            \o r.Group \o " " \o r.Version \o " " \o r.Resource \o "}"
        /\ (IsNamespaceType(r) /\ ReqSpec.Operation # "DELETE") =>
              /\ IsDenied
              /\ HasPrefix(Reason, "Incoming operation is " \o ReqSpec.Operation
                                     \o " on namespace " \o ReqSpec.Name)

\* the DELETE of "namespaces" of another version was denied although the
\* namespace it names exists and is empty
C8_Witness ==
  /\ DecodedPost
  /\ ~admitAll
  /\ IsDenied
  /\ ReqSpec.Resource = [Group |-> "", Version |-> "v2", Resource |-> "namespaces"]
  /\ ReqSpec.Operation = "DELETE"
  /\ ReqSpec.Name \in DOMAIN cluster
  /\ cluster[ReqSpec.Name].get = GetFound
  /\ \A k \in KindIds : QueryEmpty(k)

(***************************************************************************)
(* C9: webhookHandler answers a method other than POST with 405, whatever  *)
(* the path, and a POST to a path other than "/" with 404 and a body that  *)
(* names the path; neither writes a review nor calls the cluster.          *)
(***************************************************************************)
C9_MethodPath ==
  last.handler = "webhook" =>
    /\ last.req.Method # "POST" =>
          /\ resp.code = 405
          /\ ~resp.isReview /\ resp.review = ZeroReview
          /\ calls = <<>>
    /\ (last.req.Method = "POST" /\ last.req.Path # "/") =>
          /\ resp.code = 404
          /\ ~resp.isReview /\ resp.review = ZeroReview
          /\ HasPrefix(resp.text, last.req.Path)
          /\ calls = <<>>

\* a GET of another path was answered with 405
C9_Witness ==
  /\ last.handler = "webhook"
  /\ last.req.Method = "GET"
  /\ last.req.Path = "/namespaces"
  /\ resp.code = 405

(***************************************************************************)
(* C10: in every review envelope written, the reason is empty exactly when *)
(* allowed is true.                                                        *)
(***************************************************************************)
C10_ReasonEmptyIffAllowed ==
  resp.isReview => ((Reason = "") <=> (Allowed = TRUE))

\* a denial of a CREATE of a namespace, with its reason
C10_Witness ==
  /\ DecodedPost
  /\ IsDenied
  /\ Reason # ""
  /\ IsNamespaceType(ReqSpec.Resource)
  /\ ReqSpec.Operation = "CREATE"

(***************************************************************************)
(* C11: a request sent again, any number of requests later, with the       *)
(* cluster and the override as they were, gets the allowed flag and the    *)
(* reason it got before; handling a request leaves nothing behind that     *)
(* changes a later answer.                                                 *)
(***************************************************************************)
C11_Idempotent ==
  (last.handler = "webhook" /\ prev # NoPrev /\ prev.req = last.req) =>
    /\ resp.isReview = prev.resp.isReview
    /\ resp.code = prev.resp.code
    /\ Allowed = prev.resp.review.Status.Allowed
    /\ Reason = prev.resp.review.Status.Reason

\* the DELETE of a namespace was denied by the Decision Engine a second time
C11_Witness ==
  /\ EngineCase
  /\ IsDenied
  /\ prev.req = last.req
  /\ prev.resp.isReview
  /\ prev.resp.review.Status.Allowed = FALSE

(***************************************************************************)
(* C12: the verdict depends on the eight fixed kinds only: the response is *)
(* the one the same request gets from the cluster with the objects of all  *)
(* other kinds (configmaps, secrets) removed, and a namespace that holds   *)
(* only such objects is Allowed.                                           *)
(***************************************************************************)
WithoutUnlisted(cl) == [n \in DOMAIN cl |-> [cl[n] EXCEPT !.unlisted = 0]]

C12_FixedKindsOnly ==
  last.handler = "webhook" =>
    /\ resp = webhookHandler(WithoutUnlisted(cluster), admitAll, last.req).resp
    /\ (EngineCase /\ cluster[ReqSpec.Name].unlisted > 0
          /\ \A k \in KindIds : QueryEmpty(k))
         => IsAllowed /\ Reason = ""

\* a namespace holding only configmaps and secrets was allowed
C12_Witness ==
  /\ EngineCase
  /\ cluster[ReqSpec.Name].unlisted > 0
  /\ \A k \in KindIds : QueryEmpty(k)
  /\ IsAllowed

(***************************************************************************)
(* C13: statusHandler answers every request with HTTP 200 and the body     *)
(* "OK", whatever the method, the override flag and the cluster state, and *)
(* issues no cluster query.                                                *)
(***************************************************************************)
C13_StatusAlwaysOK ==
  last.handler = "status" =>
    /\ resp.code = StatusOK
    /\ resp.text = "OK"
    /\ resp.writes = 1
    /\ ~resp.isReview
    /\ calls = <<>>

\* a POST to the liveness endpoint while the namespace lookup fails
C13_Witness ==
  /\ last.handler = "status"
  /\ last.req.Method = MethodPost
  /\ admitAll
  /\ cluster[PrimaryName].get = GetError
  /\ resp.text = "OK"

(***************************************************************************)
(* C14: an evaluation by validateNamespaceDeletion issues the list query   *)
(* of each of the eight kinds exactly once, in the order of the table,     *)
(* whatever the earlier queries returned, and the verdict is written after *)
(* the eighth: the calls of the request are the lookup of the namespace    *)
(* followed by the eight list queries.                                     *)
(***************************************************************************)
C14_AllKindsOnceInOrder ==
  EngineCase =>
    /\ resp.isReview
    /\ Len(calls) = 1 + NumKinds
    /\ calls[1] = [op |-> "get", kind |-> "namespaces", ns |-> ReqSpec.Name]
    /\ \A k \in KindIds :
          calls[1 + k] = [op |-> "list", kind |-> counters[k], ns |-> ReqSpec.Name]

\* the first query failed, the second found objects, and the eighth was
\* still issued before the denial
C14_Witness ==
  /\ EngineCase
  /\ QueryFailed(1)
  /\ QueryNonEmpty(2)
  /\ IsDenied
  /\ calls[1 + NumKinds].kind = counters[NumKinds]

(***************************************************************************)
(* C15: the outcome of a request is that of the first gate whose condition *)
(* applies, in the order method, path, body decode, override, resource     *)
(* type, operation, namespace lookup, bypass annotation, Decision Engine.  *)
(* In particular an undecodable body is Denied with the override on, a     *)
(* wrong resource type with a wrong operation is denied with the resource  *)
(* type reason, and a wrong resource type or operation is Denied whatever  *)
(* the state of the named namespace.                                       *)
(***************************************************************************)
\* the first gate whose condition applies to the request handled last
FirstGate ==
  IF last.req.Method # "POST" THEN "method"
  ELSE IF last.req.Path # "/" THEN "path"
  ELSE IF ~last.req.body.err.isNil THEN "decode"
  ELSE IF admitAll THEN "override"
  ELSE IF ~IsNamespaceType(ReqSpec.Resource) THEN "resource"
  ELSE IF ReqSpec.Operation # "DELETE" THEN "operation"
  ELSE IF ReqSpec.Name \notin DOMAIN cluster \/ cluster[ReqSpec.Name].get # GetFound
    THEN "lookup"
  ELSE IF BypassSet(ReqSpec.Name) THEN "bypass"
  ELSE "engine"

\* the response and the calls that are the outcome of gate g
GateOutcome(g) ==
  CASE g = "method"    -> ~resp.isReview /\ resp.code = 405 /\ calls = <<>>
    [] g = "path"      -> ~resp.isReview /\ resp.code = 404 /\ calls = <<>>
    [] g = "decode"    ->
         /\ IsDenied /\ calls = <<>>
         /\ HasPrefix(Reason,
              "Failed to decode the request body json into an AdmissionReview resource: ")
    [] g = "override"  -> IsAllowed /\ Reason = "" /\ calls = <<>>
    [] g = "resource"  ->
         /\ IsDenied /\ calls = <<>>
         /\ HasPrefix(Reason, "Incoming resource is not a Namespace: ")
    [] g = "operation" ->
         /\ IsDenied /\ calls = <<>>
         /\ HasPrefix(Reason, "Incoming operation is " \o ReqSpec.Operation)
    [] g = "lookup"    ->
         /\ Len(calls) = 1
         /\ IF ReqSpec.Name \in DOMAIN cluster /\ cluster[ReqSpec.Name].get = GetError
              THEN /\ IsDenied
                   /\ HasPrefix(Reason, "Error occurred while retrieving the namespace ")
              ELSE IsAllowed /\ Reason = ""
    [] g = "bypass"    -> IsAllowed /\ Reason = "" /\ Len(calls) = 1
    [] g = "engine"    ->
         /\ Len(calls) = 1 + NumKinds
         /\ IsAllowed <=> \A k \in KindIds : QueryEmpty(k)
         /\ IsDenied <=> \E k \in KindIds : ~QueryEmpty(k)

C15_GatePrecedence ==
  last.handler = "webhook" =>
    /\ GateOutcome(FirstGate)
    /\ (Posted /\ ~last.req.body.err.isNil /\ admitAll) => IsDenied
    /\ (DecodedPost /\ ~admitAll /\ ~IsNamespaceType(ReqSpec.Resource)
          /\ ReqSpec.Operation # "DELETE")
         => IsDenied /\ HasPrefix(Reason, "Incoming resource is not a Namespace: ")
    /\ (DecodedPost /\ ~admitAll
          /\ (~IsNamespaceType(ReqSpec.Resource) \/ ReqSpec.Operation # "DELETE"))
         => IsDenied /\ calls = <<>>

\* a CREATE of a pod named after a namespace that carries the bypass
\* annotation "true" was denied for its resource type
C15_Witness ==
  /\ DecodedPost
  /\ ~admitAll
  /\ ~IsNamespaceType(ReqSpec.Resource)
  /\ ReqSpec.Operation = "CREATE"
  /\ ReqSpec.Name \in DOMAIN cluster
  /\ BypassSet(ReqSpec.Name)
  /\ IsDenied
  /\ HasPrefix(Reason, "Incoming resource is not a Namespace: ")

(***************************************************************************)
(* C16: every invocation of webhookHandler ends having written exactly one *)
(* response, which is exactly one of the 405, the 404 and a review with    *)
(* one verdict, on every path.                                             *)
(***************************************************************************)
C16_ExactlyOneResponse ==
  last.handler = "webhook" =>
    /\ resp.writes = 1
    /\ \/ ~resp.isReview /\ resp.code = 405 /\ resp.text # "" /\ resp.review = ZeroReview
       \/ ~resp.isReview /\ resp.code = 404 /\ resp.text # "" /\ resp.review = ZeroReview
       \/ /\ resp.isReview
          /\ resp.text = ""
          /\ resp.review.Status.hasResult
          /\ Allowed \in BOOLEAN

\* one review was written for a body that does not decode
C16_Witness ==
  /\ Posted
  /\ ~last.req.body.err.isNil
  /\ resp.writes = 1
  /\ resp.isReview
  /\ Allowed = FALSE

(***************************************************************************)
(* C17: the list queries of the fixed kinds are issued only when the       *)
(* request reaches validateNamespaceDeletion: a request that ends at an    *)
(* earlier gate issues none; and the lookup of the namespace is issued     *)
(* only when the override is off and the resource type and the operation   *)
(* match.                                                                  *)
(***************************************************************************)
\* the calls with operation op among the calls of the request handled last
CallsOf(op) == {i \in 1..Len(calls) : calls[i].op = op}

C17_QueriesOnlyAtEngine ==
  last.handler = "webhook" =>
    /\ CallsOf("list") # {} => EngineCase
    /\ CallsOf("get") # {} => NamespaceDelete
    /\ Cardinality(CallsOf("list")) = IF EngineCase THEN NumKinds ELSE 0
    /\ Cardinality(CallsOf("get")) = IF NamespaceDelete THEN 1 ELSE 0
    /\ CallsOf("list") \cup CallsOf("get") = 1..Len(calls)

\* the lookup of a namespace that holds a pod failed: the request was denied
\* after the lookup alone
C17_Witness ==
  /\ NamespaceDelete
  /\ ReqSpec.Name \in DOMAIN cluster
  /\ cluster[ReqSpec.Name].get = GetError
  /\ cluster[ReqSpec.Name].list = OnePod
  /\ IsDenied
  /\ calls = <<[op |-> "get", kind |-> "namespaces", ns |-> ReqSpec.Name]>>

(***************************************************************************)
(* C18: when some kind is non-empty and the query of some kind failed, the *)
(* denial message holds both clauses, the non-empty clause first and the   *)
(* error clause next; the error clause lists exactly the kinds whose query *)
(* failed, each with its error, in the order of the fixed kind list, and   *)
(* the non-empty clause exactly the kinds counted non-empty, so that no    *)
(* kind is in both.                                                        *)
(***************************************************************************)
ExpectedErrors ==
  LET ids == [k \in KindIds |-> k]
      Failed(k) == QueryFailed(k)
      sel == SelectSeq(ids, Failed)
  IN  [i \in 1..Len(sel) |->
         "error listing " \o counters[sel[i]] \o ", " \o Outcome(sel[i]).err.msg]

C18_BothClauses ==
  (EngineCase /\ (\E k \in KindIds : QueryNonEmpty(k))
              /\ (\E k \in KindIds : QueryFailed(k))) =>
    /\ IsDenied
    /\ HasPrefix(Reason,
         "The namespace " \o ReqSpec.Name
           \o " you are trying to remove contains one or more of these resources: ["
           \o JoinSp(ExpectedNonEmpty)
           \o "]. Please delete them and try again."
           \o "The following error(s) occurred while validating the DELETE operation on the namespace "
           \o ReqSpec.Name \o ": [" \o JoinSp(ExpectedErrors) \o "].")
    /\ Len(ExpectedNonEmpty) + Len(ExpectedErrors)
         = Cardinality({k \in KindIds : ~QueryEmpty(k)})

\* denied with a non-empty kind before and after two failed kinds
C18_Witness ==
  /\ EngineCase
  /\ IsDenied
  /\ \E i, j, k, l \in KindIds :
        /\ i < j /\ j < k /\ k < l
        /\ QueryNonEmpty(i) /\ QueryFailed(j) /\ QueryFailed(k) /\ QueryNonEmpty(l)

(***************************************************************************)
(* C19: every denial of validateNamespaceDeletion, caused by non-empty     *)
(* kinds, by failed queries or by both, ends with the bypass hint, which   *)
(* names the bypass annotation key in the kubectl annotate command for the *)
(* evaluated namespace; a nil result carries no message.                   *)
(***************************************************************************)
C19_HintOnEveryDenial ==
  EngineCase =>
    /\ IsDenied =>
         HasSuffix(Reason,
           " WARNING: If you know what you are doing, run " \o BackQuote
             \o "kubectl annotate namespace "
             \o ReqSpec.Name
             \o " k8s-namespace-guard.admission.yahoo.com/allow-cascade-delete=true"
             \o BackQuote
             \o " to bypass this policy check.")
    /\ ~IsDenied =>
         /\ IsAllowed
         /\ Reason = ""
         /\ validateNamespaceDeletion(cluster, ReqSpec.Name).err = NilErr

\* a denial caused by failed queries alone, in a namespace with no objects
C19_Witness ==
  /\ EngineCase
  /\ IsDenied
  /\ \A k \in KindIds : ~QueryNonEmpty(k)
  /\ QueryFailed(3) /\ QueryEmpty(1)
  /\ HasSuffix(Reason, "=true" \o BackQuote \o " to bypass this policy check.")

(***************************************************************************)
(* C20: a failed list query never becomes a transport-level error: the     *)
(* request still gets a 200-level response whose review has allowed false; *)
(* and every request that passes the method and the path gates gets a      *)
(* 200-level response that carries a review.                               *)
(***************************************************************************)
C20_QueryFailureIs2xxDenied ==
  /\ (EngineCase /\ \E k \in KindIds : QueryFailed(k)) =>
        /\ resp.code \in 200..299
        /\ resp.isReview
        /\ Allowed = FALSE
  /\ Posted =>
        /\ resp.code \in 200..299
        /\ resp.isReview
        /\ resp.review.Status.hasResult

\* a denial with status 200 in a namespace with one failed query and the
\* other kinds empty
C20_Witness ==
  /\ EngineCase
  /\ Cardinality({k \in KindIds : QueryFailed(k)}) = 1
  /\ \A k \in KindIds : ~QueryNonEmpty(k)
  /\ resp.code = 200
  /\ IsDenied

(***************************************************************************)
(* C21: requests handled concurrently do not interfere: whatever the       *)
(* interleaving of the handlers, with the cluster and the flag as they     *)
(* are, each request gets the response, verdict and reason it gets when    *)
(* handled alone, after the same calls; and no step of a handler writes    *)
(* the flag or the cluster, the only data the handlers share.              *)
(***************************************************************************)
\* what the handler answers to the request of goroutine g when run alone
Alone(g) == webhookHandler(cluster, admitAll, gor[g].req)

C21_AsIfAlone ==
  \A g \in Goroutines :
    gor[g].pc = "done" =>
      /\ gor[g].resp = Alone(g).resp
      /\ gor[g].acc.calls = Alone(g).calls

C21_NoInterference ==
  /\ []C21_AsIfAlone
  /\ [][admitAll' = admitAll /\ cluster' = cluster]_vars

\* two DELETEs of the same namespace ran their loops interleaved and both
\* were denied
C21_Witness ==
  \E g, h \in Goroutines :
    /\ g # h
    /\ gor[g].pc = "done" /\ gor[h].pc = "done"
    /\ gor[g].overlapped /\ gor[h].overlapped
    /\ gor[g].req = gor[h].req
    /\ gor[g].resp.isReview /\ ~gor[g].resp.review.Status.Allowed
    /\ Len(gor[g].acc.nonEmptyList) > 0 /\ Len(gor[g].acc.errList) > 0

(***************************************************************************)
(* C22: when the caller cancels a request while the list queries are under *)
(* way, the remaining queries are abandoned and the cancelled evaluation   *)
(* emits no verdict: after the cancellation the handler issues no further  *)
(* call and writes no review.                                              *)
(***************************************************************************)
C22_CancelledNoVerdict ==
  \A g \in Goroutines :
    gor[g].cancelledAt # NotCancelled =>
      /\ Len(gor[g].acc.calls) = gor[g].cancelledAt
      /\ ~gor[g].resp.isReview

(***************************************************************************)
(* C23: handling a request is read-only on its environment: the handler    *)
(* only gets the namespace and lists the eight kinds, and no step changes  *)
(* the cluster or the override flag, so both are as they were after any    *)
(* sequence of requests.                                                   *)
(***************************************************************************)
\* the calls of the request handled last only read: a get of the namespace
\* or a list of one of the eight kinds
OnlyReads ==
  \A i \in 1..Len(calls) :
    \/ calls[i].op = "get" /\ calls[i].kind = "namespaces"
    \/ calls[i].op = "list" /\ \E k \in KindIds : calls[i].kind = counters[k]

C23_ReadOnly ==
  /\ []OnlyReads
  /\ [][cluster' = cluster /\ admitAll' = admitAll]_vars

\* a DELETE was allowed for the bypass annotation, which the namespace still
\* carries
C23_Witness ==
  /\ NamespaceDelete
  /\ ReqSpec.Name \in DOMAIN cluster
  /\ cluster[ReqSpec.Name].get = GetFound
  /\ BypassSet(ReqSpec.Name)
  /\ IsAllowed
  /\ Len(calls) = 1 /\ calls[1].op = "get"

(***************************************************************************)
(* C24: the request is not changed by its handling: the review of the      *)
(* response to a decoded request carries the operation, the resource type, *)
(* the target name and namespace, the requester and the object of the      *)
(* request, and only its status is set; the review of the response to a    *)
(* body that does not decode carries an empty spec, not the fields that    *)
(* were decoded before the failure.                                        *)
(***************************************************************************)
C24_RequestEchoed ==
  Posted =>
    /\ resp.isReview
    /\ resp.review.Status.hasResult
    /\ IF last.req.body.err.isNil
         THEN /\ resp.review.Spec.Operation = ReqSpec.Operation
              /\ resp.review.Spec.Resource = ReqSpec.Resource
              /\ resp.review.Spec.Name = ReqSpec.Name
              /\ resp.review.Spec.Namespace = ReqSpec.Namespace
              /\ resp.review.Spec.Username = ReqSpec.Username
              /\ resp.review.Spec.Object = ReqSpec.Object
         ELSE /\ resp.review.Spec.Operation = ""
              /\ resp.review.Spec.Resource = [Group |-> "", Version |-> "", Resource |-> ""]
              /\ resp.review.Spec.Name = ""
              /\ resp.review.Spec.Namespace = ""
              /\ resp.review.Spec.Username = ""
              /\ resp.review.Spec.Object = ""

\* a body whose spec was decoded before the decoding failed was answered
\* with an empty spec
C24_Witness ==
  /\ Posted
  /\ ~last.req.body.err.isNil
  /\ ReqSpec.Name = "test-namespace"
  /\ resp.isReview
  /\ resp.review.Spec.Name = ""

(***************************************************************************)
(* C25: the verdict depends on the operation, the resource type, the       *)
(* target name, the override flag and the cluster only: a decoded request  *)
(* that differs from the one handled in its requester, its Namespace field *)
(* and its raw object gets the same allowed flag and the same reason, and  *)
(* the namespace that is looked up and enumerated is the one the Name of   *)
(* the review gives.                                                       *)
(***************************************************************************)
\* the request handled last, sent by another requester with another
\* Namespace field and another object
Twin ==
  [ Method |-> last.req.Method, Path |-> last.req.Path,
    body |-> Decoded(MakeSpec(ReqSpec.Operation, ReqSpec.Resource, ReqSpec.Name,
                              IF ReqSpec.Namespace = PrimaryName
                                THEN OtherName ELSE PrimaryName,
                              "mallory", "[]")) ]

C25_VerdictInputs ==
  DecodedPost =>
    LET twin == webhookHandler(cluster, admitAll, Twin)
    IN  /\ twin.resp.isReview = resp.isReview
        /\ twin.resp.review.Status.Allowed = Allowed
        /\ twin.resp.review.Status.Reason = Reason
        /\ twin.calls = calls
        /\ \A i \in 1..Len(calls) : calls[i].ns = ReqSpec.Name

\* the DELETE of a namespace that holds a pod, sent with the name of an empty
\* namespace in its Namespace field, was denied for the pod
C25_Witness ==
  /\ EngineCase
  /\ ReqSpec.Name = OtherName
  /\ ReqSpec.Namespace = PrimaryName
  /\ cluster[PrimaryName].get = GetFound
  /\ \A k \in KindIds : cluster[PrimaryName].list[k] = CleanOutcome
  /\ IsDenied
  /\ Len(calls) = 1 + NumKinds

TypeOK ==
  /\ admitAll \in BOOLEAN
  /\ cluster \in Clusters
  /\ last.handler \in {"none", "webhook", "status"}
  /\ resp.code \in {0, StatusOK, StatusNotFound, StatusMethodNotAllowed}
  /\ DOMAIN gor = Goroutines
  /\ \A g \in Goroutines :
        gor[g].pc \in {"idle", "admit", "lookup", "tally", "done"}

====
